---- MODULE Spec2Model ----
(***************************************************************************)
(* Model of BinaryExpressionCodeGenerator                                  *)
(* (packages/compiler/src/code-generation/code-generators/                 *)
(*  binary-expression-code-generator.ts).                                  *)
(*                                                                         *)
(* generate() is stepped statement by statement.  Nested binary            *)
(* expressions are compiled by the same generator through                  *)
(* context.generateValue, so the model keeps a stack of activations of     *)
(* generate().  The IR builder is modelled by the sequence `ir` of the     *)
(* builder calls made so far; the SSA value of an instruction is its       *)
(* position in that sequence.                                              *)
(***************************************************************************)
EXTENDS Integers, Sequences, FiniteSets, TLC

\* Depth of binary expressions nested in the right operand.
MaxNest == 1

VARIABLES stack, ir, status, error, returned

vars == <<stack, ir, status, error, returned>>

-----------------------------------------------------------------------------
(* Operator tokens.  Names are those of ts.SyntaxKind.                     *)

AssignmentKinds ==
    { "EqualsToken", "PlusEqualsToken", "MinusEqualsToken",
      "AsteriskAsteriskEqualsToken", "AsteriskEqualsToken", "SlashEqualsToken",
      "PercentEqualsToken", "AmpersandEqualsToken", "BarEqualsToken",
      "CaretEqualsToken", "LessThanLessThanEqualsToken",
      "GreaterThanGreaterThanGreaterThanEqualsToken",
      "GreaterThanGreaterThanEqualsToken" }

isAssignment(kind) == kind \in AssignmentKinds

\* The operator tokens the model feeds to the generator.
OperatorKinds ==
    { "AsteriskEqualsToken", "AsteriskToken", "BarToken", "BarEqualsToken",
      "PlusEqualsToken", "PlusToken", "MinusEqualsToken", "MinusToken",
      "GreaterThanToken", "LessThanToken", "SlashEqualsToken", "SlashToken",
      "EqualsEqualsEqualsToken", "ExclamationEqualsEqualsToken",
      "LessThanEqualsToken", "GreaterThanEqualsToken",
      "PercentToken", "PercentEqualsToken",
      "AmpersandToken", "AmpersandEqualsToken", "EqualsToken" }

\* Operators of nested expressions.
NestedKinds == { "EqualsToken", "PlusToken" }

ComparisonKinds ==
    { "GreaterThanToken", "LessThanToken", "LessThanEqualsToken",
      "GreaterThanEqualsToken", "EqualsEqualsEqualsToken",
      "ExclamationEqualsEqualsToken" }

-----------------------------------------------------------------------------
(* Types and type flags (front-end type checker).                          *)

\* ts.TypeFlags.Int
HasInt(t) == t = "int"

\* ts.TypeFlags.IntLike
IntLike(t) == t \in { "int", "intLiteral" }

\* ts.TypeFlags.NumberLike; int_like is a subset of number_like
NumberLike(t) == t \in { "int", "intLiteral", "number", "numberLiteral" }

\* Declared types of the variables in scope.
Scope == [ a |-> "int", y |-> "int", x |-> "number", b |-> "boolean" ]

-----------------------------------------------------------------------------
(* Syntax nodes.                                                           *)

Ident(n) == [kind |-> "Identifier", name |-> n, val |-> 0]
IntLit(v) == [kind |-> "IntLiteral", name |-> "", val |-> v]
NumLit(v) == [kind |-> "NumberLiteral", name |-> "", val |-> v]
Bin(op, l, r) == [kind |-> "BinaryExpression", op |-> op, left |-> l, right |-> r]

\* NumLit(0) is the literal 0.0, NumLit(2) a non-zero float literal.
Leaves == { Ident("a"), Ident("y"), Ident("x"), Ident("b"),
            IntLit(0), IntLit(3), NumLit(0), NumLit(2) }

NestedLeft == { Ident("a"), Ident("y") }

RECURSIVE RightOperands(_)
RightOperands(d) ==
    IF d = 0 THEN Leaves
    ELSE Leaves \cup { Bin(op, l, r) : op \in NestedKinds, l \in NestedLeft,
                                       r \in RightOperands(d - 1) }

LeftOperands ==
    Leaves \cup { Bin("EqualsToken", Ident("a"), IntLit(3)),
                  Bin("PlusToken", Ident("a"), Ident("y")) }

Expressions ==
    { Bin(op, l, r) : op \in OperatorKinds, l \in LeftOperands,
                      r \in RightOperands(MaxNest) }

\* Type resolver: type_of(node).
RECURSIVE getTypeAtLocation(_)
getTypeAtLocation(node) ==
    CASE node.kind = "Identifier" -> Scope[node.name]
      [] node.kind = "IntLiteral" -> "intLiteral"
      [] node.kind = "NumberLiteral" -> "numberLiteral"
      [] OTHER ->
           LET tl == getTypeAtLocation(node.left)
               tr == getTypeAtLocation(node.right)
           IN  IF node.op \in ComparisonKinds THEN "boolean"
               ELSE IF node.op = "EqualsToken" THEN tr
               ELSE IF node.op \in { "BarToken", "BarEqualsToken",
                                     "AmpersandToken", "AmpersandEqualsToken" }
                    THEN "int"
               ELSE IF IntLike(tl) /\ IntLike(tr) THEN "int"
               ELSE "number"

-----------------------------------------------------------------------------
(* llvm values and Values.                                                 *)

NoLLVM == [k |-> "undefined", v |-> 0]
ConstantInt(v) == [k |-> "ConstantInt", v |-> v]
ConstantFP(v) == [k |-> "ConstantFP", v |-> v]
Instruction(id) == [k |-> "Instruction", v |-> id]

NoSlot == "none"
NoValue == [slot |-> NoSlot, llvm |-> NoLLVM, type |-> "none"]

\* context.value(llvmValue, type): an r-value
value(llvm, type) == [slot |-> NoSlot, llvm |-> llvm, type |-> type]

\* Value.isAssignable(): true iff the value is an l-value (has a slot)
isAssignable(target) == target.slot # NoSlot

\* context.generateValue for identifiers and literals
generateLeafValue(node) ==
    CASE node.kind = "Identifier" ->
           [slot |-> node.name, llvm |-> NoLLVM, type |-> Scope[node.name]]
      [] node.kind = "IntLiteral" -> value(ConstantInt(node.val), "intLiteral")
      [] OTHER -> value(ConstantFP(node.val), "numberLiteral")

Instr(opc, a, b, slot) == [opc |-> opc, a |-> a, b |-> b, slot |-> slot]

\* Value.generateIR(): the builder calls it makes, given the current ir
generateIREmit(v) ==
    IF isAssignable(v) THEN << Instr("load", NoLLVM, NoLLVM, v.slot) >> ELSE << >>

\* Value.generateIR(): the llvm value it returns, given the current ir
generateIRResult(v, code) ==
    IF isAssignable(v) THEN Instruction(Len(code) + 1) ELSE v.llvm

\* rightLLVMValue instanceof llvm.ConstantInt && isNullValue()
isNullConstantInt(llvm) == llvm.k = "ConstantInt" /\ llvm.v = 0

-----------------------------------------------------------------------------
(* Activations of generate().                                              *)

Frame(node, at) ==
    [ node |-> node, pc |-> "left",
      left |-> NoValue, right |-> NoValue,
      rightLLVMValue |-> NoLLVM, leftIR |-> NoLLVM,
      leftType |-> "none", rightType |-> "none",
      result |-> NoLLVM, resultValue |-> NoValue,
      irAtEntry |-> at, irAtRight |-> 0, irAfterRight |-> 0 ]

Top == stack[Len(stack)]
SetTop(f) == [stack EXCEPT ![Len(stack)] = f]
Running == status = "running" /\ Len(stack) > 0

Init ==
    /\ \E e \in Expressions : stack = << Frame(e, 0) >>
    /\ ir = << >>
    /\ status = "running"
    /\ error = "none"
    /\ returned = NoValue

-----------------------------------------------------------------------------
(* generate(), lines 30-35: operands and their types.                      *)

\* context.generateValue(binaryExpression.left), identifier or literal
GenerateLeftLeaf ==
    /\ Running /\ Top.pc = "left"
    /\ Top.node.left.kind # "BinaryExpression"
    /\ stack' = SetTop([Top EXCEPT !.left = generateLeafValue(Top.node.left),
                                   !.pc = "right"])
    /\ UNCHANGED <<ir, status, error, returned>>

\* context.generateValue(binaryExpression.left), nested binary expression
GenerateLeftNested ==
    /\ Running /\ Top.pc = "left"
    /\ Top.node.left.kind = "BinaryExpression"
    /\ stack' = Append(SetTop([Top EXCEPT !.pc = "awaitLeft"]),
                       Frame(Top.node.left, Len(ir)))
    /\ UNCHANGED <<ir, status, error, returned>>

\* context.generateValue(binaryExpression.right), identifier or literal
GenerateRightLeaf ==
    /\ Running /\ Top.pc = "right"
    /\ Top.node.right.kind # "BinaryExpression"
    /\ stack' = SetTop([Top EXCEPT !.right = generateLeafValue(Top.node.right),
                                   !.irAtRight = Len(ir),
                                   !.pc = "rightIR"])
    /\ UNCHANGED <<ir, status, error, returned>>

\* context.generateValue(binaryExpression.right), nested binary expression
GenerateRightNested ==
    /\ Running /\ Top.pc = "right"
    /\ Top.node.right.kind = "BinaryExpression"
    /\ stack' = Append(SetTop([Top EXCEPT !.irAtRight = Len(ir),
                                          !.pc = "awaitRight"]),
                       Frame(Top.node.right, Len(ir)))
    /\ UNCHANGED <<ir, status, error, returned>>

\* right.generateIR() and the two getTypeAtLocation queries
RightGenerateIR ==
    /\ Running /\ Top.pc = "rightIR"
    /\ LET code == ir \o generateIREmit(Top.right)
       IN  /\ ir' = code
           /\ stack' = SetTop([Top EXCEPT
                   !.rightLLVMValue = generateIRResult(Top.right, ir),
                   !.irAfterRight = Len(code),
                   !.leftType = getTypeAtLocation(Top.node.left),
                   !.rightType = getTypeAtLocation(Top.node.right),
                   !.pc = "switch"])
    /\ UNCHANGED <<status, error, returned>>

-----------------------------------------------------------------------------
(* generate(), lines 39-138: the switch over the operator token.           *)
(* Each XOpcode gives the builder call of its case, "none" when the case   *)
(* leaves result undefined.                                                *)

AsteriskOpcode(leftType) ==
    IF HasInt(leftType) THEN "mul" ELSE "none"

\* The else branch calls createOr whatever the operand types are, float
\* operands included; the call is recorded as made.
BarOpcode(leftType, rightLLVMValue) ==
    IF NumberLike(leftType)
    THEN IF isNullConstantInt(rightLLVMValue) THEN "fptosi" ELSE "or"
    ELSE "none"

PlusOpcode(leftType) ==
    IF IntLike(leftType) THEN "add"
    ELSE IF NumberLike(leftType) THEN "fadd" ELSE "none"

MinusOpcode(leftType) ==
    IF IntLike(leftType) THEN "sub"
    ELSE IF NumberLike(leftType) THEN "fsub" ELSE "none"

GreaterThanOpcode(leftType) ==
    IF IntLike(leftType) THEN "icmp sgt"
    ELSE IF NumberLike(leftType) THEN "fcmp ogt" ELSE "none"

LessThanOpcode(leftType) ==
    IF IntLike(leftType) THEN "icmp slt"
    ELSE IF NumberLike(leftType) THEN "fcmp ult" ELSE "none"

SlashOpcode(leftType) ==
    IF IntLike(leftType) THEN "sdiv"
    ELSE IF NumberLike(leftType) THEN "fdiv" ELSE "none"

EqualsEqualsEqualsOpcode(leftType) ==
    IF IntLike(leftType) THEN "icmp eq"
    ELSE IF NumberLike(leftType) THEN "fcmp oeq" ELSE "none"

LessThanEqualsOpcode(leftType) ==
    IF IntLike(leftType) THEN "icmp sle"
    ELSE IF NumberLike(leftType) THEN "fcmp ule" ELSE "none"

\* PercentOpcode with number_like tested before int_like.
PercentOpcodeNumberFirst(leftType) ==
    IF NumberLike(leftType) THEN "frem"
    ELSE IF IntLike(leftType) THEN "srem" ELSE "none"

PercentOpcode(leftType) ==
    IF IntLike(leftType) THEN "srem"
    ELSE IF NumberLike(leftType) THEN "frem" ELSE "none"

\* builder.createX(left.generateIR(), rightLLVMValue); the second operand
\* of createFPToSI is the target type, not a value.
BuilderCall(opc, l, r) ==
    IF opc = "fptosi" THEN Instr(opc, l, NoLLVM, NoSlot)
    ELSE Instr(opc, l, r, NoSlot)

\* The body of one case of the switch, given the call it makes.
SwitchCase(opc) ==
    /\ IF opc = "none"
       THEN /\ ir' = ir
            /\ stack' = SetTop([Top EXCEPT !.pc = "check"])
       ELSE LET l == generateIRResult(Top.left, ir)
                code == Append(ir \o generateIREmit(Top.left),
                               BuilderCall(opc, l, Top.rightLLVMValue))
            IN  /\ ir' = code
                /\ stack' = SetTop([Top EXCEPT !.leftIR = l,
                                               !.result = Instruction(Len(code)),
                                               !.pc = "check"])
    /\ UNCHANGED <<status, error, returned>>

CaseAsterisk ==
    /\ Running /\ Top.pc = "switch"
    /\ Top.node.op \in {"AsteriskEqualsToken", "AsteriskToken"}
    /\ SwitchCase(AsteriskOpcode(Top.leftType))

CaseBar ==
    /\ Running /\ Top.pc = "switch"
    /\ Top.node.op \in {"BarToken"}
    /\ SwitchCase(BarOpcode(Top.leftType, Top.rightLLVMValue))

CasePlus ==
    /\ Running /\ Top.pc = "switch"
    /\ Top.node.op \in {"PlusEqualsToken", "PlusToken"}
    /\ SwitchCase(PlusOpcode(Top.leftType))

CaseMinus ==
    /\ Running /\ Top.pc = "switch"
    /\ Top.node.op \in {"MinusEqualsToken", "MinusToken"}
    /\ SwitchCase(MinusOpcode(Top.leftType))

CaseGreaterThan ==
    /\ Running /\ Top.pc = "switch"
    /\ Top.node.op \in {"GreaterThanToken"}
    /\ SwitchCase(GreaterThanOpcode(Top.leftType))

CaseLessThan ==
    /\ Running /\ Top.pc = "switch"
    /\ Top.node.op \in {"LessThanToken"}
    /\ SwitchCase(LessThanOpcode(Top.leftType))

CaseSlash ==
    /\ Running /\ Top.pc = "switch"
    /\ Top.node.op \in {"SlashEqualsToken", "SlashToken"}
    /\ SwitchCase(SlashOpcode(Top.leftType))

CaseEqualsEqualsEquals ==
    /\ Running /\ Top.pc = "switch"
    /\ Top.node.op \in {"EqualsEqualsEqualsToken"}
    /\ SwitchCase(EqualsEqualsEqualsOpcode(Top.leftType))

CaseLessThanEquals ==
    /\ Running /\ Top.pc = "switch"
    /\ Top.node.op \in {"LessThanEqualsToken"}
    /\ SwitchCase(LessThanEqualsOpcode(Top.leftType))

CasePercent ==
    /\ Running /\ Top.pc = "switch"
    /\ Top.node.op \in {"PercentToken"}
    /\ SwitchCase(PercentOpcode(Top.leftType))

\* case ts.SyntaxKind.FirstAssignment (= EqualsToken): result = rightLLVMValue
CaseFirstAssignment ==
    /\ Running /\ Top.pc = "switch"
    /\ Top.node.op = "EqualsToken"
    /\ stack' = SetTop([Top EXCEPT !.result = Top.rightLLVMValue,
                                   !.pc = "check"])
    /\ UNCHANGED <<ir, status, error, returned>>

\* The kinds that label some case of the switch.
SwitchKinds ==
    { "AsteriskEqualsToken", "AsteriskToken", "BarToken",
      "PlusEqualsToken", "PlusToken", "MinusEqualsToken", "MinusToken",
      "GreaterThanToken", "LessThanToken", "SlashEqualsToken", "SlashToken",
      "EqualsEqualsEqualsToken", "LessThanEqualsToken", "PercentToken",
      "EqualsToken" }

\* No case matches: the switch is left with result undefined.
CaseNone ==
    /\ Running /\ Top.pc = "switch"
    /\ Top.node.op \notin SwitchKinds
    /\ stack' = SetTop([Top EXCEPT !.pc = "check"])
    /\ UNCHANGED <<ir, status, error, returned>>

-----------------------------------------------------------------------------
(* generate(), lines 140-150, and setValue().                              *)

\* if (!result) throw new Error(`Unsupported binary operator ...`)
ThrowUnsupported ==
    /\ Running /\ Top.pc = "check"
    /\ Top.result = NoLLVM
    /\ status' = "thrown"
    /\ error' = "UnsupportedBinaryOperator"
    /\ UNCHANGED <<stack, ir, returned>>

\* const resultValue = context.value(result, rightType)
MakeResultValue ==
    /\ Running /\ Top.pc = "check"
    /\ Top.result # NoLLVM
    /\ stack' = SetTop([Top EXCEPT
            !.resultValue = value(Top.result, Top.rightType),
            !.pc = "assign"])
    /\ UNCHANGED <<ir, status, error, returned>>

\* setValue without its isAssignable test.
setValueNeverThrows(target) == FALSE

\* setValue: the else branch is taken
setValueThrows(target) == ~ isAssignable(target)

\* the operator is no assignment: setValue is not called
SkipAssignment ==
    /\ Running /\ Top.pc = "assign"
    /\ ~ isAssignment(Top.node.op)
    /\ stack' = SetTop([Top EXCEPT !.pc = "return"])
    /\ UNCHANGED <<ir, status, error, returned>>

\* setValue(left, resultValue): target.generateAssignmentIR(value)
SetValueStore ==
    /\ Running /\ Top.pc = "assign"
    /\ isAssignment(Top.node.op)
    /\ ~ setValueThrows(Top.left)
    /\ ir' = Append(ir, Instr("store", Top.resultValue.llvm, NoLLVM,
                              Top.left.slot))
    /\ stack' = SetTop([Top EXCEPT !.pc = "return"])
    /\ UNCHANGED <<status, error, returned>>

\* setValue(left, resultValue): throw new Error(`Assignment to readonly ...`)
SetValueThrow ==
    /\ Running /\ Top.pc = "assign"
    /\ isAssignment(Top.node.op)
    /\ setValueThrows(Top.left)
    /\ status' = "thrown"
    /\ error' = "ReadOnlyTarget"
    /\ UNCHANGED <<stack, ir, returned>>

\* return resultValue, to the caller of the outermost generate()
ReturnTop ==
    /\ Running /\ Top.pc = "return"
    /\ Len(stack) = 1
    /\ status' = "returned"
    /\ returned' = Top.resultValue
    /\ UNCHANGED <<stack, ir, error>>

\* return resultValue, to the generate() that asked for this operand
ReturnNested ==
    /\ Running /\ Top.pc = "return"
    /\ Len(stack) > 1
    /\ LET caller == stack[Len(stack) - 1]
           rest == SubSeq(stack, 1, Len(stack) - 2)
       IN  stack' = Append(rest,
               IF caller.pc = "awaitLeft"
               THEN [caller EXCEPT !.left = Top.resultValue, !.pc = "right"]
               ELSE [caller EXCEPT !.right = Top.resultValue, !.pc = "rightIR"])
    /\ UNCHANGED <<ir, status, error, returned>>

Next ==
    \/ GenerateLeftLeaf
    \/ GenerateLeftNested
    \/ GenerateRightLeaf
    \/ GenerateRightNested
    \/ RightGenerateIR
    \/ CaseAsterisk
    \/ CaseBar
    \/ CasePlus
    \/ CaseMinus
    \/ CaseGreaterThan
    \/ CaseLessThan
    \/ CaseSlash
    \/ CaseEqualsEqualsEquals
    \/ CaseLessThanEquals
    \/ CasePercent
    \/ CaseFirstAssignment
    \/ CaseNone
    \/ ThrowUnsupported
    \/ MakeResultValue
    \/ SkipAssignment
    \/ SetValueStore
    \/ SetValueThrow
    \/ ReturnTop
    \/ ReturnNested

Spec == Init /\ [][Next]_vars

-----------------------------------------------------------------------------
(* Vocabulary of the properties.                                           *)

\* The top activation has left the switch (and has or has not thrown).
AfterSwitch == Top.pc \in {"check", "assign", "return"}

\* Positions in ir of the builder calls the top activation made after
\* right.generateIR(): left.generateIR(), the operation, the store.
OwnPositions == (Top.irAfterRight + 1)..Len(ir)

\* Positions of the operation calls among them.
OperationPositions ==
    { i \in OwnPositions : ir[i].opc \notin {"load", "store"} }

StorePositions == { i \in OwnPositions : ir[i].opc = "store" }

\* v is the r-value of operand `operand`: its constant or the value the
\* nested expression returned, or a load of its slot.
IsValueOf(v, operand) ==
    IF isAssignable(operand)
    THEN /\ v.k = "Instruction"
         /\ v.v \in 1..Len(ir)
         /\ ir[v.v] = Instr("load", NoLLVM, NoLLVM, operand.slot)
    ELSE v = operand.llvm

\* The top activation made exactly the call opc(L's value, R's value).
EmitsExactly(opc) ==
    /\ Cardinality(OperationPositions) = 1
    /\ \A i \in OperationPositions :
         /\ ir[i].opc = opc
         /\ IsValueOf(ir[i].a, Top.left)
         /\ IsValueOf(ir[i].b, Top.right)
         /\ Top.result = Instruction(i)

IntegerInstruction ==
    [ PlusToken |-> "add", MinusToken |-> "sub", AsteriskToken |-> "mul",
      SlashToken |-> "sdiv", PercentToken |-> "srem",
      LessThanToken |-> "icmp slt", GreaterThanToken |-> "icmp sgt",
      LessThanEqualsToken |-> "icmp sle", GreaterThanEqualsToken |-> "icmp sge",
      EqualsEqualsEqualsToken |-> "icmp eq",
      ExclamationEqualsEqualsToken |-> "icmp ne" ]

FloatInstruction ==
    [ PlusToken |-> "fadd", MinusToken |-> "fsub", AsteriskToken |-> "mul",
      SlashToken |-> "fdiv", PercentToken |-> "frem",
      LessThanToken |-> "fcmp ult", GreaterThanToken |-> "fcmp ogt",
      LessThanEqualsToken |-> "fcmp ule", GreaterThanEqualsToken |-> "fcmp oge",
      EqualsEqualsEqualsToken |-> "fcmp oeq",
      ExclamationEqualsEqualsToken |-> "fcmp une" ]

FloatingPointOpcodes ==
    { "fadd", "fsub", "fdiv", "frem", "fptosi",
      "fcmp ult", "fcmp ogt", "fcmp ule", "fcmp oge", "fcmp oeq", "fcmp une" }

PlainArithmeticKinds == { "PlusToken", "MinusToken", "SlashToken", "PercentToken" }

PlainOf ==
    [ PlusEqualsToken |-> "PlusToken", MinusEqualsToken |-> "MinusToken",
      AsteriskEqualsToken |-> "AsteriskToken", SlashEqualsToken |-> "SlashToken",
      PercentEqualsToken |-> "PercentToken" ]

CompoundKinds == DOMAIN PlainOf

\* The table's entry for operator kind and a left operand of type t.
TableInstruction(kind, t) ==
    IF IntLike(t) THEN IntegerInstruction[kind]
    ELSE IF NumberLike(t) THEN FloatInstruction[kind] ELSE "none"

\* The leaf of the type lattice a checker type belongs to.
TypeClass(t) ==
    IF IntLike(t) THEN "int32"
    ELSE IF NumberLike(t) THEN "float64"
    ELSE IF t = "boolean" THEN "bool" ELSE "none"

-----------------------------------------------------------------------------
(* Properties.                                                             *)

\* C1: in every binary expression every emission that belongs to the left
\* operand, the read of its value included, comes before any emission of
\* the right operand.
C1_LeftBeforeRight ==
    (/\ AfterSwitch
     /\ isAssignable(Top.left)
     /\ Top.leftIR.k = "Instruction"
     /\ Top.irAfterRight > Top.irAtRight)
    => Top.leftIR.v <= Top.irAtRight

\* C2: a left operand of an int-like type never makes the generator emit a
\* floating-point instruction, whatever the operator and the right operand.
C2_IntNeverFloat ==
    (AfterSwitch /\ IntLike(getTypeAtLocation(Top.node.left)))
    => \A i \in OperationPositions : ir[i].opc \notin FloatingPointOpcodes

\* C3: for the plain operators + - / % an int-like left operand yields
\* exactly the integer instruction and any other number-like left operand
\* exactly the float instruction, applied to (L's value, R's value).
C3_PlainArithmetic ==
    (AfterSwitch /\ Top.node.op \in PlainArithmeticKinds)
    => LET t == getTypeAtLocation(Top.node.left)
       IN  IF IntLike(t) THEN EmitsExactly(IntegerInstruction[Top.node.op])
           ELSE IF NumberLike(t) THEN EmitsExactly(FloatInstruction[Top.node.op])
           ELSE TRUE

\* C3 witness: a float remainder and an integer add have been emitted for
\* a plain % with a float left operand and a plain + with an int one.
C3_Witness ==
    /\ Top.pc = "check"
    /\ \/ /\ Top.node.op = "PercentToken"
          /\ getTypeAtLocation(Top.node.left) = "number"
          /\ isAssignable(Top.right)
          /\ ir[Len(ir)].opc = "frem"
       \/ /\ Top.node.op = "PlusToken"
          /\ getTypeAtLocation(Top.node.left) = "int"
          /\ Top.node.right.kind = "BinaryExpression"
          /\ ir[Len(ir)].opc = "add"

\* C4: * and *= with a number-like left operand never fail and yield an
\* integer multiply.
C4_Multiply ==
    (/\ AfterSwitch
     /\ Top.node.op \in {"AsteriskToken", "AsteriskEqualsToken"}
     /\ NumberLike(getTypeAtLocation(Top.node.left)))
    => EmitsExactly("mul")

\* C5: each of < > <= >= === !== is lowered for a numeric left operand to
\* the signed or integer predicate when it is int-like and to the float
\* predicate of the table otherwise, and none of them fails.
C5_Comparisons ==
    (/\ AfterSwitch
     /\ Top.node.op \in ComparisonKinds
     /\ NumberLike(getTypeAtLocation(Top.node.left)))
    => EmitsExactly(TableInstruction(Top.node.op,
                                     getTypeAtLocation(Top.node.left)))

\* C6: for | with a number-like, non-int-like left operand the truncation
\* is emitted exactly when R is the literal integer constant zero; for any
\* other R no result is produced and no bitwise or is emitted.
C6_BarCoercion ==
    (/\ AfterSwitch
     /\ Top.node.op = "BarToken"
     /\ NumberLike(getTypeAtLocation(Top.node.left))
     /\ ~ IntLike(getTypeAtLocation(Top.node.left)))
    => IF Top.node.right = IntLit(0)
       THEN \E i \in OperationPositions : ir[i].opc = "fptosi"
       ELSE /\ Top.result = NoLLVM
            /\ OperationPositions = {}

\* C7, as stated: an assignment form whose left operand is not assignable
\* fails with ReadOnlyTarget, emits no store into L and returns no Value.
C7_ReadOnlyTarget ==
    /\ (Top.pc = "return" /\ isAssignment(Top.node.op))
         => isAssignable(Top.left)
    /\ \A i \in 1..Len(ir) : ir[i].opc = "store" => ir[i].slot # NoSlot
    /\ (status = "thrown" /\ isAssignment(Top.node.op) /\ ~ isAssignable(Top.left))
         => error = "ReadOnlyTarget" /\ returned = NoValue

\* C7, amended: an assignment form whose left operand is not assignable
\* fails, emits no store into L and returns no Value; the failure is
\* ReadOnlyTarget when the operator step produced a result and
\* UnsupportedBinaryOperator, raised first, when it produced none.
C7_ReadOnlyAfterResult ==
    /\ (Top.pc = "return" /\ isAssignment(Top.node.op))
         => isAssignable(Top.left)
    /\ \A i \in 1..Len(ir) : ir[i].opc = "store" => ir[i].slot # NoSlot
    /\ (status = "thrown" /\ isAssignment(Top.node.op) /\ ~ isAssignable(Top.left))
         => /\ error = IF Top.result = NoLLVM THEN "UnsupportedBinaryOperator"
                       ELSE "ReadOnlyTarget"
            /\ returned = NoValue

\* C7 witness: a compound assignment to a literal has thrown ReadOnlyTarget
\* after its operation was emitted.
C7_Witness ==
    /\ status = "thrown"
    /\ error = "ReadOnlyTarget"
    /\ isAssignment(Top.node.op)
    /\ ~ isAssignable(Top.left)
    /\ Top.result.k = "Instruction"

\* C8: a store into L is made iff the operator is an assignment form, then
\* exactly one, of the computed value V, which is also the expression's
\* value; and x |= 0 is lowered and stores its result into x.
C8_StoreIffAssignment ==
    /\ Top.pc = "return"
         => /\ Cardinality(StorePositions) =
                 IF isAssignment(Top.node.op) THEN 1 ELSE 0
            /\ \A i \in StorePositions :
                 /\ ir[i].slot = Top.left.slot
                 /\ ir[i].a = Top.result
            /\ Top.resultValue.llvm = Top.result
    /\ (/\ AfterSwitch
        /\ Top.node.op = "BarEqualsToken"
        /\ isAssignable(Top.left)
        /\ NumberLike(Top.left.type)
        /\ Top.node.right = IntLit(0))
         => Top.result # NoLLVM

\* C9: the type of the returned Value is the resolver's type of the whole
\* binary expression, int32 for the | 0 coercion.
C9_ResultType ==
    Top.pc = "return"
    => TypeClass(Top.resultValue.type) =
         IF Top.node.op = "BarToken" /\ Top.node.right = IntLit(0)
         THEN "int32"
         ELSE TypeClass(getTypeAtLocation(Top.node))

\* C10: each of += -= *= /= %= emits the instruction of its plain operator
\* for the same left type and does not fail where the plain operator
\* succeeds, then assigns the result to an assignable L.
C10_CompoundAssign ==
    (/\ AfterSwitch
     /\ Top.node.op \in CompoundKinds
     /\ isAssignable(Top.left))
    => LET plain == PlainOf[Top.node.op]
           opc == CASE plain = "PlusToken" -> PlusOpcode(Top.leftType)
                    [] plain = "MinusToken" -> MinusOpcode(Top.leftType)
                    [] plain = "AsteriskToken" -> AsteriskOpcode(Top.leftType)
                    [] plain = "SlashToken" -> SlashOpcode(Top.leftType)
                    [] plain = "PercentToken" -> PercentOpcode(Top.leftType)
       IN  opc # "none"
           => /\ EmitsExactly(opc)
              /\ Top.pc = "return" => Cardinality(StorePositions) = 1

====
